---- MODULE Spec2Model ----
(***************************************************************************)
(* json_decoding: a PostgreSQL logical-decoding output plugin that writes  *)
(* every row change as one JSON object (src/json_decoding.c).              *)
(*                                                                         *)
(* Text is modelled as a sequence of chunks.  A chunk is one character     *)
(* that matters to JSON or to the quoting code (brace, comma, colon,       *)
(* space, double quote, single quote, backslash) or a run of plain         *)
(* characters kept whole ("pg_change_table", "6", "public").  The          *)
(* concatenation of the chunks is the byte string the code appends.        *)
(***************************************************************************)
EXTENDS Integers, Sequences, FiniteSets, TLC

DQ == "\""
SQ == "'"
BS == "\\"
SP == " "

\* An absent row image (a null oldtuple or newtuple).
NoTuple == <<>>
NoArg == "NULL"

(***************************************************************************)
(* Bounds of the model.                                                    *)
(***************************************************************************)
MaxChanges == 3
MaxTxns == 2
MaxOptions == 2
MaxTextLen == 3

(***************************************************************************)
(* Host functions the plugin calls (PostgreSQL), by what they do.          *)
(***************************************************************************)

\* parse_bool(value, &result): the spellings of the model; on failure the
\* host stores false in *result and returns false.
TrueSpellings == {"true", "on", "1"}
FalseSpellings == {"false", "off", "0"}

parse_bool(value) ==
    IF value \in TrueSpellings THEN [ok |-> TRUE, result |-> TRUE]
    ELSE IF value \in FalseSpellings THEN [ok |-> TRUE, result |-> FALSE]
    ELSE [ok |-> FALSE, result |-> FALSE]

\* quote_identifier(ident): the identifier as is when it is made of lower
\* case letters, digits and underscores and is no keyword (no identifier of
\* the model is one); otherwise in double quotes with every embedded double
\* quote doubled.
SafeIdentChunks ==
    {"public", "test_table", "events", "id", "state", "date", "note",
     "amount", "ctid", "dropped_1", "pg_temp_16400"}

RECURSIVE DoubleChunk(_, _)
DoubleChunk(s, c) ==
    IF s = <<>> THEN <<>>
    ELSE (IF Head(s) = c THEN <<c, c>> ELSE <<Head(s)>>) \o DoubleChunk(Tail(s), c)

quote_identifier(ident) ==
    IF ident # <<>> /\ \A i \in 1..Len(ident) : ident[i] \in SafeIdentChunks
    THEN ident
    ELSE <<DQ>> \o DoubleChunk(ident, DQ) \o <<DQ>>

quote_qualified_identifier(qualifier, ident) ==
    quote_identifier(qualifier) \o <<".">> \o quote_identifier(ident)

\* getTypeOutputInfo(typid, &typoutput, &typisvarlena)
typisvarlena(typid) == typid \in {"TEXTOID", "NUMERICOID", "BITOID", "VARBITOID"}

\* SQL_STR_DOUBLE(ch, escape_backslash)
SQL_STR_DOUBLE(ch, escape_backslash) ==
    ch = SQ \/ (ch = BS /\ escape_backslash)

(***************************************************************************)
(* Helper implementations.                                                 *)
(***************************************************************************)
isSystemColumn(attr) == attr.attnum < 0

\* A variant that takes no column for dropped.
isColumnDeleted_never(attr) == FALSE

isColumnDeleted(attr) == attr.attisdropped

hasParameter(elem, param) == elem.defname = param

RECURSIVE EscapeLoop(_)
EscapeLoop(outputstr) ==
    IF outputstr = <<>> THEN <<>>
    ELSE LET ch == Head(outputstr)
         IN  (IF SQL_STR_DOUBLE(ch, FALSE) THEN <<ch>> ELSE <<>>)
                 \o <<ch>> \o EscapeLoop(Tail(outputstr))

NumericOids ==
    {"INT2OID", "INT4OID", "INT8OID", "OIDOID", "FLOAT4OID", "FLOAT8OID",
     "NUMERICOID"}

print_literal(typid, outputstr) ==
    IF typid \in NumericOids THEN outputstr
    ELSE IF typid \in {"BITOID", "VARBITOID"} THEN <<DQ>> \o outputstr \o <<DQ>>
    ELSE IF typid = "BOOLOID"
         THEN (IF outputstr = <<"t">> THEN <<"true">> ELSE <<"false">>)
    ELSE <<DQ>> \o EscapeLoop(outputstr) \o <<DQ>>

\* One column of the loop of tuple_to_json_fields: the text it appends.
column_to_json(tupdesc, tuple, natt, skip_nulls, include_toast_datum) ==
    LET attr == tupdesc[natt + 1]
        typid == attr.atttypid
        origval == tuple[natt + 1]
        isnull == origval.isnull
    IN  IF isColumnDeleted(attr) \/ isSystemColumn(attr) THEN <<>>
        ELSE IF isnull /\ skip_nulls THEN <<>>
        ELSE (IF natt > 0 THEN <<",">> ELSE <<>>)
             \o <<SP, DQ>> \o quote_identifier(attr.attname) \o <<DQ>>
             \o <<":", SP>>
             \o (IF isnull THEN <<"null">>
                 ELSE IF typisvarlena(typid) /\ origval.external
                         /\ ~include_toast_datum
                      THEN <<"unchanged-toast-datum">>
                 ELSE print_literal(typid, origval.str))

RECURSIVE fields_from(_, _, _, _, _)
fields_from(tupdesc, tuple, natt, skip_nulls, include_toast_datum) ==
    IF natt >= Len(tupdesc) THEN <<>>
    ELSE column_to_json(tupdesc, tuple, natt, skip_nulls, include_toast_datum)
         \o fields_from(tupdesc, tuple, natt + 1, skip_nulls, include_toast_datum)

\* A variant that ignores skip_nulls.
tuple_to_json_fields_all_nulls(tupdesc, tuple, skip_nulls, include_toast_datum) ==
    fields_from(tupdesc, tuple, 0, FALSE, include_toast_datum)

tuple_to_json_fields(tupdesc, tuple, skip_nulls, include_toast_datum) ==
    fields_from(tupdesc, tuple, 0, skip_nulls, include_toast_datum)

(***************************************************************************)
(* The catalog and the host values of the model.                           *)
(***************************************************************************)
Attr(name, typid, num, dropped) ==
    [attname |-> name, atttypid |-> typid, attnum |-> num, attisdropped |-> dropped]

Val(s) == [isnull |-> FALSE, external |-> FALSE, str |-> s]
Toasted(s) == [isnull |-> FALSE, external |-> TRUE, str |-> s]
Null == [isnull |-> TRUE, external |-> FALSE, str |-> <<>>]

\* test_table(id INTEGER PRIMARY KEY, state BOOLEAN, date TIMESTAMP)
RelTest ==
    [nspname |-> <<"public">>, relname |-> <<"test_table">>, relrewrite |-> 0,
     attrs |-> << Attr(<<"id">>, "INT4OID", 1, FALSE),
                  Attr(<<"state">>, "BOOLOID", 2, FALSE),
                  Attr(<<"date">>, "TIMESTAMPOID", 3, FALSE) >>,
     values |-> << {Val(<<"6">>), Val(<<"5">>), Null},
                   {Val(<<"t">>), Val(<<"f">>), Null},
                   {Val(<<"2019-02-14 14:36:20.308138">>), Null} >>]

\* A table whose first column was dropped, with a system attribute in its
\* descriptor and a text column that can be stored out of line.
RelEvents ==
    [nspname |-> <<"public">>, relname |-> <<"events">>, relrewrite |-> 0,
     attrs |-> << Attr(<<"dropped_1">>, "INT4OID", 1, TRUE),
                  Attr(<<"ctid">>, "TIDOID", -1, FALSE),
                  Attr(<<"id">>, "INT4OID", 2, FALSE),
                  Attr(<<"note">>, "TEXTOID", 3, FALSE) >>,
     values |-> << {Val(<<"7">>), Null},
                   {Val(<<"(0,1)">>)},
                   {Val(<<"6">>), Null},
                   {Val(<<"a">>), Toasted(<<"a">>), Val(<<"say", DQ, "hi", DQ>>),
                    Val(<<"it", SQ, "s">>), Val(<<"C:", BS, "dir">>), Null} >>]

\* A table and a column whose names need quoting, and a float column.
RelOrders ==
    [nspname |-> <<"public">>, relname |-> <<"Orders">>, relrewrite |-> 0,
     attrs |-> << Attr(<<"Id">>, "INT4OID", 1, FALSE),
                  Attr(<<"amount">>, "FLOAT8OID", 2, FALSE) >>,
     values |-> << {Val(<<"6">>), Null},
                   {Val(<<"1.5">>), Val(<<"NaN">>), Null} >>]

\* The transient heap of a table rewrite: relrewrite names the table rewritten.
RelRewrite ==
    [nspname |-> <<"public">>, relname |-> <<"pg_temp_16400">>, relrewrite |-> 16385,
     attrs |-> << Attr(<<"id">>, "INT4OID", 1, FALSE) >>,
     values |-> << {Val(<<"6">>), Null} >>]

\* get_rel_name(relid)
get_rel_name(relid) == IF relid = 16385 THEN <<"test_table">> ELSE <<"events">>

\* timestamptz_to_str(t); the model keeps a TimestampTz in whole seconds.
timestamptz_to_str(t) ==
    IF t = 603867148 THEN "2019-02-19 00:52:28.467626-05"
    ELSE "2019-02-21 12:15:05.360927-05"

Txns ==
    { [xid |-> 4542284, commit_time |-> 603867148],
      [xid |-> 8568666, commit_time |-> 604080905] }

NoTxn == [xid |-> 0, commit_time |-> 0]

\* Every tuple of a relation: one value per attribute.
Tuples(rel) ==
    { t \in [1..Len(rel.attrs) -> UNION {rel.values[i] : i \in 1..Len(rel.attrs)}] :
        \A i \in 1..Len(rel.attrs) : t[i] \in rel.values[i] }

KnownActions == {"INSERT", "UPDATE", "DELETE"}

ChangeOf(rel, action, old, new) ==
    [relation |-> [nspname |-> rel.nspname, relname |-> rel.relname,
                   relrewrite |-> rel.relrewrite, attrs |-> rel.attrs],
     action |-> action, oldtuple |-> old, newtuple |-> new]

\* The changes the reorder buffer hands over for one relation.
ChangesOn(rel) ==
    LET images == Tuples(rel) \cup {NoTuple}
    IN  {ChangeOf(rel, "INSERT", NoTuple, n) : n \in images}
        \cup {ChangeOf(rel, "UPDATE", o, n) : o \in images, n \in images}
        \cup {ChangeOf(rel, "DELETE", o, NoTuple) : o \in images}

EncodeChanges ==
    ChangesOn(RelTest) \cup ChangesOn(RelEvents) \cup ChangesOn(RelOrders)
        \cup ChangesOn(RelRewrite)

Row(a, b, c) == <<a, b, c>>
ReadmeDate == Val(<<"2019-02-14 14:36:20.308138">>)

\* The changes of the README: insert, update of the key, delete; and one
\* whose action the plugin does not know.
StreamChanges ==
    { ChangeOf(RelTest, "INSERT", NoTuple, Row(Val(<<"6">>), Val(<<"t">>), ReadmeDate)),
      ChangeOf(RelTest, "INSERT", NoTuple, Row(Val(<<"5">>), Val(<<"f">>), Null)),
      ChangeOf(RelTest, "UPDATE", Row(Val(<<"6">>), Null, Null),
               Row(Val(<<"5">>), Val(<<"t">>), ReadmeDate)),
      ChangeOf(RelTest, "DELETE", Row(Val(<<"6">>), Null, Null), NoTuple),
      ChangeOf(RelTest, "TRUNCATE", NoTuple, NoTuple) }

Opt(name, arg) == [defname |-> name, arg |-> arg]

OptionNames ==
    {"include-xids", "include-timestamp", "skip-empty-xacts", "only-local",
     "include-rewrites", "include-toast-datum", "include-messages"}

OptionArgs == {NoArg, "true", "off", "maybe"}

RECURSIVE SeqsUpTo(_, _)
SeqsUpTo(S, n) ==
    IF n = 0 THEN {<<>>}
    ELSE LET shorter == SeqsUpTo(S, n - 1)
         IN  shorter \cup {Append(s, x) : s \in shorter, x \in S}

StartupOptionLists ==
    SeqsUpTo({Opt(n, a) : n \in OptionNames, a \in OptionArgs}, MaxOptions)

\* Every way of leaving out elements of s, order kept.
RECURSIVE SubLists(_)
SubLists(s) ==
    IF s = <<>> THEN {<<>>}
    ELSE LET rest == SubLists(Tail(s))
         IN  rest \cup {<<Head(s)>> \o r : r \in rest}

EncodeOptionLists ==
    SubLists(<< Opt("include-xids", "off"), Opt("include-timestamp", "off"),
                Opt("include-toast-datum", "off") >>)

StreamOptionLists == SubLists(<< Opt("skip-empty-xacts", "off") >>)

Origins == {0, 1}
InvalidRepOriginId == 0

(***************************************************************************)
(* State.                                                                  *)
(***************************************************************************)
VARIABLES
    phase,            \* where the session is: created, idle, in_txn, error,
                      \* crashed, shutdown
    assert_checking,  \* whether the build compiles Assert() in
    options,          \* ctx->output_plugin_options
    data,             \* ctx->output_plugin_private (JsonDecodingData)
    receive_rewrites, \* opt->receive_rewrites
    context,          \* data->context: none, alive, deleted
    txn,              \* the transaction being replayed (ReorderBufferTXN)
    stream,           \* the texts OutputPluginWrite has handed over, in order
    delivered,        \* the changes pg_decode_change was called with, in order
    ntxns,            \* the number of pg_decode_begin calls of the session
    nchanges,         \* the number of changes since the last pg_decode_begin
    captured,         \* where pg_output_begin ran in this transaction: 0 at
                      \* begin, k at the k-th change
    lastFilter,       \* the last pg_decode_filter call and its result
    pending,          \* the change about to be replayed (SpecEncode)
    lit_in,           \* the argument of print_literal (SpecLiteral)
    lit_out           \* its result (SpecLiteral)

vars ==
    << phase, assert_checking, options, data, receive_rewrites, context, txn,
       stream, delivered, ntxns, nchanges, captured, lastFilter, pending,
       lit_in, lit_out >>

NoFilter == [origin_id |-> 0, result |-> FALSE, called |-> FALSE]
NoChange == "none"
NoLiteral == [typid |-> "none", str |-> <<>>]
Unformatted == <<"(unformatted)">>

\* palloc0(sizeof(JsonDecodingData))
ZeroData ==
    [include_xids |-> FALSE, include_timestamp |-> FALSE,
     skip_empty_xacts |-> FALSE, xact_wrote_changes |-> FALSE,
     only_local |-> FALSE, include_messages |-> FALSE,
     include_toast_datum |-> FALSE, xid |-> 0, commit_time |-> 0]

\* The defaults pg_decode_startup stores before it reads the options.
DefaultData ==
    [ZeroData EXCEPT !.include_xids = TRUE, !.include_timestamp = TRUE,
                     !.skip_empty_xacts = TRUE, !.only_local = FALSE,
                     !.include_messages = FALSE, !.include_toast_datum = TRUE]

(***************************************************************************)
(* pg_decode_startup.                                                      *)
(***************************************************************************)
Step(kind, d, rr) == [kind |-> kind, data |-> d, receive_rewrites |-> rr]

\* parse_bool(strVal(elem->arg), &data-><field>), then the has_parser_error
\* test: reportErrorInvalidParam raises the error.
parse_into(st, field, value) ==
    LET r == parse_bool(value)
    IN  Step(IF r.ok THEN "next" ELSE "error",
             [st.data EXCEPT ![field] = r.result], st.receive_rewrites)

\* strVal(NULL) reads through a null pointer: the backend crashes, or
\* parse_bool reads whatever string the read produced.
parse_null_into(st, field) ==
    {Step("crashed", st.data, st.receive_rewrites)}
        \cup {parse_into(st, field, v) : v \in {"true", "off", "maybe"}}

\* One element of the option list: the outcomes of the loop body.
option_step(st, elem) ==
    IF hasParameter(elem, "include-xids") /\ elem.arg # NoArg
        THEN {parse_into(st, "include_xids", elem.arg)}
    ELSE IF hasParameter(elem, "include-timestamp") /\ elem.arg # NoArg
        THEN {parse_into(st, "include_timestamp", elem.arg)}
    ELSE IF hasParameter(elem, "skip-empty-xacts") /\ elem.arg # NoArg
        THEN {parse_into(st, "skip_empty_xacts", elem.arg)}
    ELSE IF hasParameter(elem, "only-local")
        THEN IF elem.arg # NoArg
             THEN {Step("next", [st.data EXCEPT !.only_local = TRUE],
                        st.receive_rewrites)}
             ELSE parse_null_into(st, "only_local")
    ELSE IF hasParameter(elem, "include-rewrites") /\ elem.arg # NoArg
        THEN LET r == parse_bool(elem.arg)
             IN  {Step(IF r.ok THEN "next" ELSE "error", st.data, r.result)}
    ELSE IF hasParameter(elem, "include-toast-datum") /\ elem.arg # NoArg
        THEN {parse_into(st, "include_toast_datum", elem.arg)}
    ELSE \* reportUnknownParam raises the error
         {Step("error", st.data, st.receive_rewrites)}

\* foreach(option, ctx->output_plugin_options)
RECURSIVE startup_loop(_, _)
startup_loop(opts, st) ==
    IF opts = <<>> THEN {Step("done", st.data, st.receive_rewrites)}
    ELSE UNION { IF r.kind = "next" THEN startup_loop(Tail(opts), r) ELSE {r} :
                 r \in option_step(st, Head(opts)) }

pg_decode_startup ==
    /\ phase = "created"
    /\ \E r \in startup_loop(options, Step("next", DefaultData, FALSE)) :
          /\ phase' = (IF r.kind = "done" THEN "idle" ELSE r.kind)
          /\ data' = r.data
          /\ receive_rewrites' = r.receive_rewrites
    /\ context' = "alive"
    /\ UNCHANGED << assert_checking, options, txn, stream, delivered, ntxns,
                    nchanges, captured, lastFilter, pending, lit_in, lit_out >>

(***************************************************************************)
(* pg_decode_begin, pg_output_begin.                                       *)
(***************************************************************************)
pg_output_begin(d, t) ==
    [d EXCEPT !.xid = IF d.include_xids THEN t.xid ELSE @,
              !.commit_time = IF d.include_timestamp THEN t.commit_time ELSE @]

\* A variant that writes a BEGIN line for the transaction, as the
\* pg_output_begin of test_decoding does.
pg_decode_begin_writing(t) ==
    /\ phase = "idle"
    /\ ntxns < MaxTxns
    /\ LET d == [data EXCEPT !.xact_wrote_changes = FALSE]
       IN  IF d.skip_empty_xacts
           THEN data' = d /\ captured' = <<>> /\ stream' = stream
           ELSE /\ data' = pg_output_begin(d, t)
                /\ captured' = <<0>>
                /\ stream' = Append(stream, <<"BEGIN", SP, ToString(t.xid)>>)
    /\ txn' = t
    /\ phase' = "in_txn"
    /\ ntxns' = ntxns + 1
    /\ nchanges' = 0
    /\ UNCHANGED << assert_checking, options, receive_rewrites, context,
                    delivered, lastFilter, pending, lit_in, lit_out >>

pg_decode_begin(t) ==
    /\ phase = "idle"
    /\ ntxns < MaxTxns
    /\ LET d == [data EXCEPT !.xact_wrote_changes = FALSE]
       IN  IF d.skip_empty_xacts
           THEN data' = d /\ captured' = <<>>
           ELSE data' = pg_output_begin(d, t) /\ captured' = <<0>>
    /\ txn' = t
    /\ phase' = "in_txn"
    /\ ntxns' = ntxns + 1
    /\ nchanges' = 0
    /\ UNCHANGED << assert_checking, options, receive_rewrites, context, stream,
                    delivered, lastFilter, pending, lit_in, lit_out >>

(***************************************************************************)
(* pg_decode_change.                                                       *)
(***************************************************************************)
\* "output BEGIN if we haven't yet"
\* A variant that does not look at xact_wrote_changes.
begin_is_due_every_change(d) == d.skip_empty_xacts

begin_is_due(d) == d.skip_empty_xacts /\ ~d.xact_wrote_changes

Key(name) == <<DQ, name, DQ, ":", SP>>

\* The text of the switch on change->action; an action outside the three
\* reaches the default label.
action_to_json(d, change) ==
    LET tupdesc == change.relation.attrs
    IN  IF change.action = "INSERT"
        THEN <<DQ, "INSERT", DQ, ",", SP>>
             \o (IF change.newtuple # NoTuple
                 THEN tuple_to_json_fields(tupdesc, change.newtuple, FALSE,
                                           d.include_toast_datum)
                 ELSE <<>>)
        ELSE IF change.action = "UPDATE"
        THEN <<DQ, "UPDATE", DQ, ",", SP>>
             \o (IF change.oldtuple # NoTuple
                 THEN <<SP>> \o Key("old_primary_key") \o <<"{", SP>>
                      \o tuple_to_json_fields(tupdesc, change.oldtuple, TRUE,
                                              d.include_toast_datum)
                      \o <<SP, "}", ",", SP>>
                 ELSE <<>>)
             \o (IF change.newtuple # NoTuple
                 THEN tuple_to_json_fields(tupdesc, change.newtuple, FALSE,
                                           d.include_toast_datum)
                 ELSE <<>>)
        ELSE IF change.action = "DELETE"
        THEN <<DQ, "DELETE", DQ, ",", SP>>
             \o (IF change.oldtuple # NoTuple
                 THEN tuple_to_json_fields(tupdesc, change.oldtuple, TRUE,
                                           d.include_toast_datum)
                 ELSE <<>>)
        ELSE <<>>

\* The text pg_decode_change builds in ctx->out.
change_to_json(d, t, change) ==
    LET rel == change.relation
    IN  <<"{", SP, DQ, "pg_change_table", DQ, ":", SP, DQ>>
        \o quote_qualified_identifier(
               rel.nspname,
               IF rel.relrewrite # 0 THEN get_rel_name(rel.relrewrite)
               ELSE rel.relname)
        \o <<DQ, ",", SP>>
        \o (IF d.include_timestamp
            THEN Key("pg_change_tnx_time")
                 \o <<DQ, timestamptz_to_str(t.commit_time), DQ, ",", SP>>
            ELSE <<>>)
        \o (IF d.include_xids
            THEN Key("pg_change_tnx_id") \o <<ToString(t.xid), ",", SP>>
            ELSE <<>>)
        \o <<SP>> \o Key("pg_change_type")
        \o action_to_json(d, change)
        \o <<SP, "}">>

pg_decode_change(change) ==
    /\ phase = "in_txn"
    /\ LET due == begin_is_due(data)
           d == IF due THEN pg_output_begin(data, txn) ELSE data
           wrote == [d EXCEPT !.xact_wrote_changes = TRUE]
       IN  /\ data' = wrote
           /\ captured' = IF due THEN Append(captured, nchanges + 1) ELSE captured
           /\ IF change.action \notin KnownActions /\ assert_checking
              THEN \* Assert(false) aborts the backend
                   phase' = "crashed" /\ stream' = stream
              ELSE /\ phase' = phase
                   /\ stream' = Append(stream, change_to_json(wrote, txn, change))
    /\ delivered' = Append(delivered, change)
    /\ nchanges' = nchanges + 1
    /\ UNCHANGED << assert_checking, options, receive_rewrites, context, txn,
                    ntxns, lastFilter, pending, lit_in, lit_out >>

(***************************************************************************)
(* pg_decode_commit, pg_decode_filter, pg_decode_shutdown.                 *)
(***************************************************************************)
pg_decode_commit ==
    /\ phase = "in_txn"
    /\ phase' = "idle"
    /\ txn' = NoTxn
    /\ UNCHANGED << assert_checking, options, data, receive_rewrites, context,
                    stream, delivered, ntxns, nchanges, captured, lastFilter,
                    pending, lit_in, lit_out >>

filter_result(d, origin_id) == d.only_local /\ origin_id # InvalidRepOriginId

pg_decode_filter(origin_id) ==
    /\ phase = "idle"
    /\ lastFilter' = [origin_id |-> origin_id,
                      result |-> filter_result(data, origin_id), called |-> TRUE]
    /\ UNCHANGED << phase, assert_checking, options, data, receive_rewrites,
                    context, txn, stream, delivered, ntxns, nchanges, captured,
                    pending, lit_in, lit_out >>

pg_decode_shutdown ==
    /\ phase = "idle"
    /\ phase' = "shutdown"
    /\ context' = "deleted"
    /\ UNCHANGED << assert_checking, options, data, receive_rewrites, txn,
                    stream, delivered, ntxns, nchanges, captured, lastFilter,
                    pending, lit_in, lit_out >>

(***************************************************************************)
(* The session: startup, then transactions replayed one after the other    *)
(* (begin, the changes, commit), then shutdown.                            *)
(***************************************************************************)
InitSession ==
    /\ phase = "created"
    /\ data = ZeroData
    /\ receive_rewrites = FALSE
    /\ context = "none"
    /\ txn = NoTxn
    /\ stream = <<>>
    /\ delivered = <<>>
    /\ ntxns = 0
    /\ nchanges = 0
    /\ captured = <<>>
    /\ lastFilter = NoFilter
    /\ lit_in = NoLiteral
    /\ lit_out = Unformatted

Init ==
    /\ InitSession
    /\ assert_checking \in BOOLEAN
    /\ options \in StreamOptionLists
    /\ pending = NoChange

Startup == pg_decode_startup

Begin == \E t \in Txns : pg_decode_begin(t)

Change ==
    /\ Len(delivered) < MaxChanges
    /\ \E c \in StreamChanges : pg_decode_change(c)

Commit == pg_decode_commit

Filter == \E origin_id \in Origins : pg_decode_filter(origin_id)

Shutdown == pg_decode_shutdown

Next == Startup \/ Begin \/ Change \/ Commit \/ Shutdown

Spec == Init /\ [][Next]_vars

(***************************************************************************)
(* Startup over every short option list, and the origin filter the host    *)
(* asks between transactions.                                              *)
(***************************************************************************)
InitStartup ==
    /\ InitSession
    /\ assert_checking = FALSE
    /\ options \in StartupOptionLists
    /\ pending = NoChange

NextStartup == Startup \/ Filter \/ Shutdown

SpecStartup == InitStartup /\ [][NextStartup]_vars

(***************************************************************************)
(* The encoding of one change, over every change of the catalog.           *)
(***************************************************************************)
InitEncode ==
    /\ InitSession
    /\ assert_checking = FALSE
    /\ options \in EncodeOptionLists
    /\ pending \in EncodeChanges

BeginReplay ==
    /\ ntxns = 0
    /\ \E t \in Txns : pg_decode_begin(t)

Replay ==
    /\ delivered = <<>>
    /\ pg_decode_change(pending)

NextEncode == Startup \/ BeginReplay \/ Replay \/ Commit

SpecEncode == InitEncode /\ [][NextEncode]_vars

(***************************************************************************)
(* print_literal alone, over the string-like types and short texts.        *)
(***************************************************************************)
TextAlphabet == {"a", DQ, SQ, BS}

StringLikeOids == {"TEXTOID", "VARCHAROID", "JSONOID"}

LiteralInputs ==
    {[typid |-> ty, str |-> s] :
        ty \in StringLikeOids, s \in SeqsUpTo(TextAlphabet, MaxTextLen)}
    \cup {[typid |-> "BOOLOID", str |-> s] : s \in {<<"t">>, <<"f">>}}
    \cup {[typid |-> ty, str |-> <<"6">>] : ty \in NumericOids}
    \cup {[typid |-> ty, str |-> <<"101">>] : ty \in {"BITOID", "VARBITOID"}}

InitLiteral ==
    /\ phase = "created"
    /\ data = ZeroData
    /\ receive_rewrites = FALSE
    /\ context = "none"
    /\ txn = NoTxn
    /\ stream = <<>>
    /\ delivered = <<>>
    /\ ntxns = 0
    /\ nchanges = 0
    /\ captured = <<>>
    /\ lastFilter = NoFilter
    /\ assert_checking = FALSE
    /\ options = <<>>
    /\ pending = NoChange
    /\ lit_in \in LiteralInputs
    /\ lit_out = Unformatted

FormatLiteral ==
    /\ lit_out = Unformatted
    /\ lit_out' = print_literal(lit_in.typid, lit_in.str)
    /\ UNCHANGED << phase, assert_checking, options, data, receive_rewrites,
                    context, txn, stream, delivered, ntxns, nchanges, captured,
                    lastFilter, pending, lit_in >>

NextLiteral == FormatLiteral

SpecLiteral == InitLiteral /\ [][NextLiteral]_vars

(***************************************************************************)
(* Reading text back: the JSON grammar over chunks, and the search for a   *)
(* field in a text.                                                        *)
(***************************************************************************)
NumberWords == {"6", "5", "7", "1.5", "101"} \cup {ToString(t.xid) : t \in Txns}

JsonLiteralWords == {"true", "false", "null"} \cup NumberWords

\* The inside of a JSON string: no bare double quote, and a backslash only
\* before a double quote, a backslash or a slash (no plain chunk of the
\* model begins with one of the escape letters b f n r t u).
RECURSIVE ValidInterior(_)
ValidInterior(s) ==
    IF s = <<>> THEN TRUE
    ELSE IF Head(s) = DQ THEN FALSE
    ELSE IF Head(s) = BS
         THEN Len(s) >= 2 /\ s[2] \in {DQ, BS, "/"}
              /\ ValidInterior(SubSeq(s, 3, Len(s)))
    ELSE ValidInterior(Tail(s))

RECURSIVE Unescape(_)
Unescape(s) ==
    IF s = <<>> THEN <<>>
    ELSE IF Head(s) = BS /\ Len(s) >= 2
         THEN <<s[2]>> \o Unescape(SubSeq(s, 3, Len(s)))
    ELSE <<Head(s)>> \o Unescape(Tail(s))

IsJsonString(lit) ==
    /\ Len(lit) >= 2
    /\ lit[1] = DQ
    /\ lit[Len(lit)] = DQ
    /\ ValidInterior(SubSeq(lit, 2, Len(lit) - 1))

JsonDecode(lit) == Unescape(SubSeq(lit, 2, Len(lit) - 1))

\* The index of the double quote that closes a string whose inside starts
\* at i; 0 when the text ends first.
RECURSIVE StringEnd(_, _)
StringEnd(T, i) ==
    IF i > Len(T) THEN 0
    ELSE IF T[i] = DQ THEN i
    ELSE IF T[i] = BS THEN StringEnd(T, i + 2)
    ELSE StringEnd(T, i + 1)

Token(k, v) == [k |-> k, v |-> v]

\* The JSON tokens of a text: punctuation, strings (with their inside), and
\* words; white space separates.
RECURSIVE Lex(_, _)
Lex(T, i) ==
    IF i > Len(T) THEN <<>>
    ELSE IF T[i] = SP THEN Lex(T, i + 1)
    ELSE IF T[i] \in {"{", "}", ",", ":"} THEN <<Token(T[i], <<>>)>> \o Lex(T, i + 1)
    ELSE IF T[i] = DQ
         THEN LET e == StringEnd(T, i + 1)
              IN  IF e = 0 THEN <<Token("unterminated", <<>>)>>
                  ELSE <<Token("str", SubSeq(T, i + 1, e - 1))>> \o Lex(T, e + 1)
    ELSE <<Token("word", <<T[i]>>)>> \o Lex(T, i + 1)

ValidString(tok) == tok.k = "str" /\ ValidInterior(tok.v)

ValidWord(tok) == tok.k = "word" /\ tok.v[1] \in JsonLiteralWords

\* The index after the value (the members of an object) that starts at i;
\* 0 when there is none.
RECURSIVE ParseValue(_, _)
RECURSIVE ParseMembers(_, _)
ParseValue(tk, i) ==
    IF i > Len(tk) THEN 0
    ELSE IF ValidString(tk[i]) \/ ValidWord(tk[i]) THEN i + 1
    ELSE IF tk[i].k = "{"
         THEN IF i + 1 <= Len(tk) /\ tk[i + 1].k = "}" THEN i + 2
              ELSE ParseMembers(tk, i + 1)
    ELSE 0

ParseMembers(tk, i) ==
    IF i + 1 > Len(tk) THEN 0
    ELSE IF ~ValidString(tk[i]) \/ tk[i + 1].k # ":" THEN 0
    ELSE LET j == ParseValue(tk, i + 2)
         IN  IF j = 0 \/ j > Len(tk) THEN 0
             ELSE IF tk[j].k = "," THEN ParseMembers(tk, j + 1)
             ELSE IF tk[j].k = "}" THEN j + 1
             ELSE 0

IsJsonObject(T) ==
    LET tk == Lex(T, 1)
    IN  tk # <<>> /\ tk[1].k = "{" /\ ParseValue(tk, 1) = Len(tk) + 1

\* The keys (strings followed by a colon) at a nesting depth, in order.
RECURSIVE KeysAtDepth(_, _, _, _)
KeysAtDepth(tk, i, depth, want) ==
    IF i > Len(tk) THEN <<>>
    ELSE IF tk[i].k = "{" THEN KeysAtDepth(tk, i + 1, depth + 1, want)
    ELSE IF tk[i].k = "}" THEN KeysAtDepth(tk, i + 1, depth - 1, want)
    ELSE IF tk[i].k = "str" /\ depth = want /\ i < Len(tk) /\ tk[i + 1].k = ":"
         THEN <<tk[i].v>> \o KeysAtDepth(tk, i + 2, depth, want)
    ELSE KeysAtDepth(tk, i + 1, depth, want)

TopLevelKeys(T) == KeysAtDepth(Lex(T, 1), 1, 0, 1)

\* The token after the colon of the first top-level key named key.
RECURSIVE ValueOfKey(_, _, _, _)
ValueOfKey(tk, i, depth, key) ==
    IF i + 2 > Len(tk) THEN Token("none", <<>>)
    ELSE IF tk[i].k = "{" THEN ValueOfKey(tk, i + 1, depth + 1, key)
    ELSE IF tk[i].k = "}" THEN ValueOfKey(tk, i + 1, depth - 1, key)
    ELSE IF tk[i] = Token("str", key) /\ depth = 1 /\ tk[i + 1].k = ":"
         THEN tk[i + 2]
    ELSE ValueOfKey(tk, i + 1, depth, key)

Occurs(pat, T) ==
    \E i \in 1..(Len(T) - Len(pat) + 1) : SubSeq(T, i, i + Len(pat) - 1) = pat

\* The index of the first chunk c of T; 0 when there is none.
RECURSIVE FirstFrom(_, _, _)
FirstFrom(T, c, i) ==
    IF i > Len(T) THEN 0 ELSE IF T[i] = c THEN i ELSE FirstFrom(T, c, i + 1)

\* What follows the first chunk c of T; nothing when T has no c.
After(T, c) ==
    LET i == FirstFrom(T, c, 1)
    IN  IF i = 0 THEN <<>> ELSE SubSeq(T, i + 1, Len(T))

Before(T, c) ==
    LET i == FirstFrom(T, c, 1)
    IN  IF i = 0 THEN T ELSE SubSeq(T, 1, i - 1)

\* The inside of the old_primary_key object of a record, and what follows it.
OldKeyBlock(r) == Before(After(After(r, "old_primary_key"), "{"), "}")
AfterOldKeyBlock(r) == After(After(After(r, "old_primary_key"), "{"), "}")

\* The part of a record that holds the fields of the old row image, and
\* the part that holds those of the new one.
OldImageText(r, action) ==
    IF action = "UPDATE" THEN OldKeyBlock(r)
    ELSE IF action = "DELETE" THEN After(r, "DELETE")
    ELSE <<>>

NewImageText(r, action) ==
    IF action = "INSERT" THEN After(r, "INSERT")
    ELSE IF action = "UPDATE"
         THEN IF Occurs(<<"old_primary_key">>, r) THEN AfterOldKeyBlock(r)
              ELSE After(r, "UPDATE")
    ELSE <<>>

\* A column's key as the row encoder writes it: the quoted identifier
\* between double quotes, then a colon.
FieldKey(attr) == <<DQ>> \o quote_identifier(attr.attname) \o <<DQ, ":">>

HasField(T, attr) == Occurs(FieldKey(attr), T)

HasNullField(T, attr) == Occurs(FieldKey(attr) \o <<SP, "null">>, T)

Participates(attr) == ~attr.attisdropped /\ attr.attnum >= 0

(***************************************************************************)
(* Properties.                                                             *)
(***************************************************************************)
Encoded(i) == delivered[i].action \in KnownActions

\* C1: every record written for an INSERT, UPDATE or DELETE is a complete
\* JSON object: balanced braces, no leading, trailing or doubled comma,
\* every key a JSON string and every value a JSON value.
C1_RecordIsJsonObject ==
    \A i \in 1..Len(stream) : Encoded(i) => IsJsonObject(stream[i])

\* What identifies the record of a change: its operation tag and the id
\* fields of its images; a change of unknown action carries no tag.
IdField(tuple) == <<DQ, "id", DQ, ":", SP>> \o tuple[1].str

RecordIsFor(r, c) ==
    IF c.action \in KnownActions
    THEN /\ Occurs(<<DQ, c.action, DQ>>, r)
         /\ c.newtuple # NoTuple => Occurs(IdField(c.newtuple), NewImageText(r, c.action))
         /\ c.oldtuple # NoTuple => Occurs(IdField(c.oldtuple), OldImageText(r, c.action))
    ELSE \A a \in KnownActions : ~Occurs(<<DQ, a, DQ>>, r)

\* C2: the stream holds exactly one record per change call that returned,
\* in the order of the calls; begin and commit add none, so a transaction
\* without a change adds none.  (A call the backend aborted in, the last
\* one of a crashed session, returned nothing.)
C2_OneRecordPerChangeInOrder ==
    /\ Len(stream) = Len(delivered) - (IF phase = "crashed" THEN 1 ELSE 0)
    /\ \A i \in 1..Len(stream) : RecordIsFor(stream[i], delivered[i])

C2_Witness ==
    /\ phase = "idle"
    /\ ntxns = 2
    /\ nchanges = 0
    /\ Len(stream) = 2
    /\ delivered[1].action = "INSERT"
    /\ delivered[2].action = "INSERT"
    /\ delivered[1] # delivered[2]

\* The keys C3 names for a change, in its order.
ImageKeys(attrs, tuple, skip_nulls) ==
    LET keep(k) == Participates(attrs[k]) /\ ~(skip_nulls /\ tuple[k].isnull)
        F[k \in 0..Len(attrs)] ==
            IF k = 0 THEN <<>>
            ELSE IF keep(k) THEN Append(F[k - 1], attrs[k].attname)
            ELSE F[k - 1]
    IN  F[Len(attrs)]

ClaimedKeys(d, c) ==
    <<<<"pg_change_table">>>>
    \o (IF d.include_timestamp THEN <<<<"pg_change_tnx_time">>>> ELSE <<>>)
    \o (IF d.include_xids THEN <<<<"pg_change_tnx_id">>>> ELSE <<>>)
    \o <<<<"pg_change_operation_type">>>>
    \o (IF c.action = "UPDATE" /\ c.oldtuple # NoTuple
        THEN <<<<"old_primary_key">>>> ELSE <<>>)
    \o (IF c.action \in {"INSERT", "UPDATE"} /\ c.newtuple # NoTuple
        THEN ImageKeys(c.relation.attrs, c.newtuple, FALSE)
        ELSE IF c.action = "DELETE" /\ c.oldtuple # NoTuple
        THEN ImageKeys(c.relation.attrs, c.oldtuple, TRUE)
        ELSE <<>>)

\* The insert of the README and the record the README shows for it.
ReadmeInsert ==
    ChangeOf(RelTest, "INSERT", NoTuple, Row(Val(<<"6">>), Val(<<"t">>), ReadmeDate))

ReadmeTxn == [xid |-> 4542284, commit_time |-> 603867148]

ReadmeRecord ==
    <<"{", DQ, "pg_change_table", DQ, ":", DQ, "public", ".", "test_table", DQ, ",",
      DQ, "pg_change_tnx_time", DQ, ":", DQ, "2019-02-19 00:52:28.467626-05", DQ, ",",
      DQ, "pg_change_tnx_id", DQ, ":", "4542284", ",",
      DQ, "pg_change_operation_type", DQ, ":", DQ, "INSERT", DQ, ",",
      DQ, "id", DQ, ":", "6", ",",
      DQ, "state", DQ, ":", "true", ",",
      DQ, "date", DQ, ":", DQ, "2019-02-14 14:36:20.308138", DQ, "}">>

\* C3: the top-level keys of a record are pg_change_table,
\* pg_change_tnx_time (iff include_timestamp), pg_change_tnx_id (iff
\* include_xids), pg_change_operation_type holding the operation,
\* old_primary_key (iff an UPDATE with an old image), then the image's
\* columns in schema order; and the README's insert under the default
\* configuration yields the README's record.
C3_KeysAsDocumented ==
    \A i \in 1..Len(stream) :
        Encoded(i) =>
            /\ TopLevelKeys(stream[i]) = ClaimedKeys(data, delivered[i])
            /\ ValueOfKey(Lex(stream[i], 1), 1, 0, <<"pg_change_operation_type">>)
                   = Token("str", <<delivered[i].action>>)
            /\ (options = <<>> /\ delivered[i] = ReadmeInsert /\ txn = ReadmeTxn)
                   => stream[i] = ReadmeRecord

RecognizedNames ==
    {"include-xids", "include-timestamp", "skip-empty-xacts", "only-local",
     "include-rewrites", "include-toast-datum"}

BareOnlyLocal(elem) == elem = Opt("only-local", NoArg)

WellFormedOption(elem) ==
    \/ BareOnlyLocal(elem)
    \/ /\ elem.defname \in RecognizedNames \ {"only-local"}
       /\ elem.arg # NoArg
       /\ parse_bool(elem.arg).ok

StartupReturned == phase \in {"idle", "in_txn", "shutdown"}

\* C4: after a startup whose options hold only-local without a value (and
\* otherwise only well-formed options), startup has succeeded and
\* only_local is true; every filter call returns true for a non-local
\* origin and false for the local one when only_local is true, and false
\* for every origin when it is false.
C4_BareOnlyLocalMeansTrue ==
    /\ ( /\ phase # "created"
         /\ \E i \in 1..Len(options) : BareOnlyLocal(options[i])
         /\ \A i \in 1..Len(options) : WellFormedOption(options[i]) )
       => (StartupReturned /\ data.only_local)
    /\ lastFilter.called =>
          lastFilter.result
              = (data.only_local /\ lastFilter.origin_id # InvalidRepOriginId)

Offending(elem) ==
    \/ elem.defname \notin RecognizedNames
    \/ elem.arg # NoArg /\ ~parse_bool(elem.arg).ok

Configuration(d, rr) ==
    << d.include_xids, d.include_timestamp, d.skip_empty_xacts, d.only_local,
       d.include_toast_datum, rr >>

\* C5: a startup whose option list holds an unrecognized name or a value
\* that is no boolean ends in a configuration error, and no option of the
\* list has changed a configuration field from its default.
C5_ErrorLeavesDefaults ==
    ( /\ phase # "created"
      /\ \E i \in 1..Len(options) : Offending(options[i]) )
    => /\ phase = "error"
       /\ Configuration(data, receive_rewrites) = Configuration(DefaultData, FALSE)

HasDoubleQuote(str) == \E i \in 1..Len(str) : str[i] = DQ

StringLike(typid) ==
    typid \notin NumericOids \cup {"BITOID", "VARBITOID", "BOOLOID"}

\* C6: the literal print_literal makes of a string-like value that holds a
\* double quote is a JSON string, and decoding it gives the value back.
C6_QuotedTextRoundTrips ==
    ( /\ lit_out # Unformatted
      /\ StringLike(lit_in.typid)
      /\ HasDoubleQuote(lit_in.str) )
    => /\ IsJsonString(lit_out)
       /\ JsonDecode(lit_out) = lit_in.str

\* C7: whatever the operation and the image, a column that is dropped or
\* is a system column (negative attnum) is no field of the record.
C7_DroppedAndSystemColumnsAbsent ==
    \A i \in 1..Len(stream) :
        Encoded(i) =>
            \A k \in 1..Len(delivered[i].relation.attrs) :
                LET attr == delivered[i].relation.attrs[k]
                IN  (attr.attisdropped \/ attr.attnum < 0)
                        => ~HasField(stream[i], attr)

C7_Witness ==
    /\ Len(stream) = 1
    /\ delivered[1].action = "UPDATE"
    /\ delivered[1].oldtuple # NoTuple
    /\ delivered[1].newtuple # NoTuple
    /\ \E k \in 1..Len(delivered[1].relation.attrs) :
          /\ delivered[1].relation.attrs[k].attisdropped
          /\ ~delivered[1].oldtuple[k].isnull
          /\ ~delivered[1].newtuple[k].isnull
    /\ \E k \in 1..Len(delivered[1].relation.attrs) :
          /\ delivered[1].relation.attrs[k].attnum < 0
          /\ ~delivered[1].newtuple[k].isnull

\* C8: a NULL of a participating column is written as a field holding null
\* exactly in a new row image (INSERT, UPDATE); in an old row image (the
\* old_primary_key block of an UPDATE, the image of a DELETE) the column
\* is left out, and every participating column that is not NULL is still
\* a field there.
C8_NullsShownInNewSkippedInOld ==
    \A i \in 1..Len(stream) :
        LET c == delivered[i]
            attrs == c.relation.attrs
            new == NewImageText(stream[i], c.action)
            old == OldImageText(stream[i], c.action)
        IN  Encoded(i) =>
            /\ (c.action \in {"INSERT", "UPDATE"} /\ c.newtuple # NoTuple) =>
                  \A k \in 1..Len(attrs) :
                      Participates(attrs[k]) =>
                          /\ HasField(new, attrs[k])
                          /\ HasNullField(new, attrs[k]) <=> c.newtuple[k].isnull
            /\ (c.action \in {"UPDATE", "DELETE"} /\ c.oldtuple # NoTuple) =>
                  \A k \in 1..Len(attrs) :
                      Participates(attrs[k]) =>
                          /\ HasField(old, attrs[k]) <=> ~c.oldtuple[k].isnull
                          /\ ~HasNullField(old, attrs[k])

C8_Witness ==
    /\ Len(stream) = 1
    /\ delivered[1].action = "UPDATE"
    /\ delivered[1].oldtuple # NoTuple
    /\ delivered[1].newtuple # NoTuple
    /\ \E k \in 1..Len(delivered[1].relation.attrs) :
          /\ Participates(delivered[1].relation.attrs[k])
          /\ delivered[1].newtuple[k].isnull
    /\ \E j, k \in 1..Len(delivered[1].relation.attrs) :
          /\ Participates(delivered[1].relation.attrs[j])
          /\ Participates(delivered[1].relation.attrs[k])
          /\ delivered[1].oldtuple[j].isnull
          /\ ~delivered[1].oldtuple[k].isnull

\* C9: once a transaction has begun, xact_wrote_changes is false until its
\* first change and true from then on; pg_output_begin runs at begin and
\* at no change when skip_empty_xacts is false, and when it is true it
\* runs once, at the first change, and never in a transaction without a
\* change; where it ran, the transaction's xid and commit time are held
\* (as far as include_xids and include_timestamp ask for them).
C9_FramingState ==
    ntxns > 0 =>
        /\ data.xact_wrote_changes <=> nchanges > 0
        /\ captured = (IF ~data.skip_empty_xacts THEN <<0>>
                       ELSE IF nchanges > 0 THEN <<1>>
                       ELSE <<>>)
        /\ (phase = "in_txn" /\ captured # <<>>) =>
              /\ data.include_xids => data.xid = txn.xid
              /\ data.include_timestamp => data.commit_time = txn.commit_time

C9_Witness ==
    /\ data.skip_empty_xacts
    /\ ntxns = 2
    /\ nchanges = 2
    /\ phase = "in_txn"
    /\ data.xid = txn.xid
    /\ Len(delivered) = 3

\* C10: a change whose action is none of INSERT, UPDATE, DELETE ends the
\* callback in a fatal error, and no record is written for it.
C10_UnknownActionIsFatal ==
    \A i \in 1..Len(delivered) :
        delivered[i].action \notin KnownActions =>
            /\ phase = "crashed"
            /\ i = Len(delivered)
            /\ Len(stream) = i - 1

====
